---------------------------- MODULE Spec2Model ----------------------------
(***************************************************************************)
(* A model of src/app.py, the Indonesia minimum-wage dashboard.  The       *)
(* script is one synchronous pass, re-executed top to bottom on every      *)
(* widget interaction: load the sheet, read the sidebar widgets, filter,   *)
(* then the KPI, map, ranking, growth, heatmap, gap and ratio sections.    *)
(* Each section is one action; pc is the position of the pass.  A pass     *)
(* ends "done", "stopped" (st.stop()) or "error" (an exception nobody      *)
(* catches).                                                               *)
(*                                                                         *)
(* Numbers of a float64 column are exact rationals <<n, d>> in lowest      *)
(* terms with d > 0, plus NaN = <<0,0>>, +inf = <<1,0>>, -inf = <<-1,0>>.  *)
(* Rounding error of the binary representation is not modelled.            *)
(***************************************************************************)
EXTENDS Integers, Sequences, FiniteSets, TLC

(* ------------------------------ bounds -------------------------------- *)
\* longest generated sheet (rows)
MaxRows == 2
\* years of the generated sheets are 1..MaxYear
MaxYear == 3
\* salaries of the generated sheets are 0..MaxSalary
MaxSalary == 2
\* the longer sheets, of well-formed cells only: CleanLen rows, years 1..CleanYears
CleanLen == 3
CleanYears == 2

(* ------------------------- float64 arithmetic ------------------------- *)
NaN == <<0, 0>>
PosInf == <<1, 0>>
NegInf == <<-1, 0>>

Abs(x) == IF x < 0 THEN -x ELSE x

RECURSIVE GCD(_, _)
GCD(a, b) == IF b = 0 THEN a ELSE GCD(b, a % b)

Sign(x) == IF x > 0 THEN 1 ELSE IF x < 0 THEN -1 ELSE 0

\* the float n/d; d = 0 gives the IEEE result of a division by zero
Frac(n, d) ==
  IF d = 0 THEN <<Sign(n), 0>>
  ELSE LET g == GCD(Abs(n), Abs(d))
       IN  <<Sign(d) * (n \div g), Abs(d) \div g>>

Num(n) == <<n, 1>>

IsNaN(x) == x = NaN
IsInf(x) == x[2] = 0 /\ x[1] # 0
IsFinite(x) == x[2] > 0

FSub(a, b) ==
  IF IsNaN(a) \/ IsNaN(b) THEN NaN
  ELSE IF IsInf(a) /\ IsInf(b) THEN (IF a = b THEN NaN ELSE a)
  ELSE IF IsInf(a) THEN a
  ELSE IF IsInf(b) THEN <<-b[1], 0>>
  ELSE Frac(a[1] * b[2] - b[1] * a[2], a[2] * b[2])

FMulInt(a, k) ==
  IF IsNaN(a) THEN NaN
  ELSE IF IsInf(a) THEN <<Sign(a[1] * k), 0>>
  ELSE Frac(a[1] * k, a[2])

FDiv(a, b) ==
  IF IsNaN(a) \/ IsNaN(b) THEN NaN
  ELSE IF IsInf(a) /\ IsInf(b) THEN NaN
  ELSE IF IsInf(a) THEN <<a[1] * (IF b[1] < 0 THEN -1 ELSE 1), 0>>
  ELSE IF IsInf(b) THEN Num(0)
  ELSE Frac(a[1] * b[2], a[2] * b[1])

FAddF(a, b) == Frac(a[1] * b[2] + b[1] * a[2], a[2] * b[2])

\* a < b; every comparison with NaN is false
FLt(a, b) ==
  IF IsNaN(a) \/ IsNaN(b) THEN FALSE
  ELSE IF IsInf(a) \/ IsInf(b)
       THEN (a = NegInf /\ b # NegInf) \/ (b = PosInf /\ a # PosInf)
  ELSE a[1] * b[2] < b[1] * a[2]

FGt(a, b) == FLt(b, a)
FEq(a, b) == ~IsNaN(a) /\ ~IsNaN(b) /\ a = b
FNeg(a) == <<-a[1], a[2]>>

(* ------------------------------ strings ------------------------------- *)
NATIONAL == "INDONESIA"

\* str.strip()
str_strip(s) == IF s = " B" THEN "B" ELSE IF s = " region" THEN "region"
                ELSE IF s = "Salary " THEN "Salary" ELSE s

\* str.upper()
str_upper(s) ==
  CASE s = "Indonesia" -> "INDONESIA"
    [] s = "region" -> "REGION"
    [] s = "Salary" -> "SALARY"
    [] s = "year" -> "YEAR"
    [] OTHER -> s

\* the order of Python's str comparison on the region names of the model
StrOrd(s) ==
  CASE s = "A" -> 1 [] s = "B" -> 2 [] s = "C" -> 3 [] s = "D" -> 4
    [] s = "INDONESIA" -> 5 [] s = "Indonesia" -> 6 [] OTHER -> 7

(* --------------------------- generic helpers -------------------------- *)
Range(s) == {s[i] : i \in 1..Len(s)}
SeqsUpTo(S, n) == UNION {[1..k -> S] : k \in 0..n}
Head_n(s, n) == SubSeq(s, 1, IF n < Len(s) THEN n ELSE Len(s))
SetMin(S) == CHOOSE x \in S : \A y \in S : x <= y
SetMax(S) == CHOOSE x \in S : \A y \in S : x >= y
Min2(a, b) == IF a < b THEN a ELSE b
Max2(a, b) == IF a > b THEN a ELSE b

\* Boolean indexing df[mask] is SelectSeq: the rows satisfying the mask, in
\* order, each keeping its index label ix.

(* ------------------------- the source sheet --------------------------- *)
\* a cell pd.to_numeric cannot parse
BadCell == -1
\* pd.NA in the Int64 YEAR column
NA == -9

GoodHeader == <<"REGION", "SALARY", "YEAR">>
GenRegions == {"INDONESIA", "Indonesia", "A", "B"}
GenRows == [REGION : GenRegions,
            YEAR : (1..MaxYear) \cup {BadCell},
            SALARY : (0..MaxSalary) \cup {BadCell}]

CleanRows == [REGION : {"INDONESIA", "A", "B"},
              YEAR : 1..CleanYears,
              SALARY : 0..MaxSalary]
CleanSheets == [1..CleanLen -> CleanRows]

Raw(r, y, s) == [REGION |-> r, YEAR |-> y, SALARY |-> s]

\* the sheets of the spec's worked examples (section 8)
ChangeExample ==
  <<Raw("A", 1, 100), Raw("B", 1, 200), Raw("A", 2, 110), Raw("B", 2, 200),
    Raw("A", 3, 121), Raw("B", 3, 100)>>
GapExample == <<Raw("INDONESIA", 1, 2500000), Raw("A", 1, 3000000)>>
RankExample == <<Raw("A", 1, 5), Raw(" B", 1, 3), Raw("C", 1, 8), Raw("D", 1, 1)>>
ExampleSheets == {ChangeExample, GapExample, RankExample}

OddHeaders ==
  { <<" region", "Salary ", "year">>, <<"REGION", "YEAR">>,
    <<"PROVINCE", "SALARY", "YEAR">> }

Sources ==
  [header : {GoodHeader},
   rows : SeqsUpTo(GenRows, MaxRows) \cup CleanSheets \cup ExampleSheets]
  \cup [header : OddHeaders, rows : SeqsUpTo(GenRows, 1)]

(* ------------------------------- state -------------------------------- *)
VARIABLES
  source,            \* the sheet at DATA_PATH
  df, loaded,        \* the loaded table, and whether st.cache_data holds it
  pc, error, nodata, \* position of the pass, the uncaught exception, messages
  bound,             \* the Python names assigned so far that a later read needs
  year_from, year_to, prov_list, selected_prov, include_indonesia, top_bottom_n,
  df_year, df_national, df_prov,
  kpi, df_map,
  prov_filtered, top_df, bot_df,
  growth_filtered, pct_df,
  heat_data,
  df_gap, top_gap, bot_gap,
  df_ratio, top_ratio, bot_ratio

widgets == <<year_from, year_to, prov_list, selected_prov, include_indonesia,
             top_bottom_n>>
filtered == <<df_year, df_national, df_prov>>
sections == <<kpi, df_map, prov_filtered, top_df, bot_df, growth_filtered,
              pct_df, heat_data, df_gap, top_gap, bot_gap, df_ratio,
              top_ratio, bot_ratio>>
vars == <<source, df, loaded, pc, error, nodata, bound, widgets, filtered,
          sections>>

NoTable == [merged |-> FALSE, rows |-> <<>>]

\* a fresh script namespace
Fresh ==
  /\ error = "" /\ nodata = {} /\ bound = {}
  /\ year_from = 0 /\ year_to = 0 /\ prov_list = <<>> /\ selected_prov = <<>>
  /\ include_indonesia = TRUE /\ top_bottom_n = 1
  /\ df_year = <<>> /\ df_national = <<>> /\ df_prov = <<>>
  /\ kpi = <<>> /\ df_map = <<>>
  /\ prov_filtered = <<>> /\ top_df = <<>> /\ bot_df = <<>>
  /\ growth_filtered = <<>> /\ pct_df = <<>>
  /\ heat_data = {}
  /\ df_gap = NoTable /\ top_gap = <<>> /\ bot_gap = <<>>
  /\ df_ratio = NoTable /\ top_ratio = <<>> /\ bot_ratio = <<>>

Init ==
  /\ source \in Sources
  /\ df = <<>> /\ loaded = FALSE
  /\ pc = "load"
  /\ Fresh

\* the pass ends with an uncaught exception
Raise(e) == pc' = "error" /\ error' = e

(* ------------------------------ load_data ----------------------------- *)
\* pd.to_numeric(errors="coerce") on a SALARY cell
to_numeric(c) == IF c = BadCell THEN NaN ELSE Num(c)
\* pd.to_numeric(errors="coerce").astype("Int64") on a YEAR cell
to_Int64(c) == IF c = BadCell THEN NA ELSE c

\* a mutant: the header names as written in the sheet
columns_raw(src) == src.header

columns(src) == [i \in 1..Len(src.header) |-> str_upper(str_strip(src.header[i]))]
missing_columns(src) == {e \in Range(GoodHeader) : e \notin Range(columns(src))}

\* lines 61-63: the first expected column that is missing, and the message
\* of the ValueError raised for it
first_missing(src) ==
  GoodHeader[SetMin({i \in 1..Len(GoodHeader) : GoodHeader[i] \in missing_columns(src)})]
column_error(e) ==
  CASE e = "REGION" -> "Failed to load data: Column 'REGION' not found"
    [] e = "SALARY" -> "Failed to load data: Column 'SALARY' not found"
    [] e = "YEAR" -> "Failed to load data: Column 'YEAR' not found"

load_data(src) ==
  [i \in 1..Len(src.rows) |->
     [REGION |-> str_strip(src.rows[i].REGION),
      YEAR |-> to_Int64(src.rows[i].YEAR),
      SALARY |-> to_numeric(src.rows[i].SALARY),
      ix |-> i]]

\* a mutant: the cache never answers
cache_miss(l) == FALSE

\* @st.cache_data: the call is answered from the cache once a call with the
\* same path has returned
cache_hit(l) == l

Load ==
  /\ pc = "load"
  /\ IF cache_hit(loaded)
       THEN pc' = "sidebar" /\ UNCHANGED <<df, loaded, error>>
       ELSE IF missing_columns(source) # {}
         THEN /\ pc' = "stopped"
              /\ error' = column_error(first_missing(source))
              /\ UNCHANGED <<df, loaded>>
         ELSE /\ df' = load_data(source)
              /\ loaded' = TRUE
              /\ pc' = "sidebar"
              /\ UNCHANGED error
  /\ UNCHANGED <<source, nodata, bound, widgets, filtered, sections>>

(* ------------------------------ sidebar ------------------------------- *)
\* a mutant: the identifier compared as written
is_national_exact(r) == r.REGION = NATIONAL

is_national(r) == str_upper(r.REGION) = NATIONAL
not_national(r) == str_upper(r.REGION) # NATIONAL
known_year(r) == r.YEAR # NA

\* sorted(unique())
sorted_unique(S) ==
  LET RECURSIVE Build(_)
      Build(T) == IF T = {} THEN <<>>
                  ELSE LET m == CHOOSE x \in T : \A y \in T : StrOrd(x) <= StrOrd(y)
                       IN  <<m>> \o Build(T \ {m})
  IN  Build(S)

make_prov_list(d) == sorted_unique({r.REGION : r \in Range(SelectSeq(d, not_national))})

\* the sub-lists of a list, in the list's order
SubLists(l) ==
  {SelectSeq(l, LAMBDA x : x \in S) : S \in SUBSET Range(l)}

Years(d) == {r.YEAR : r \in Range(SelectSeq(d, known_year))}

Sidebar ==
  /\ pc = "sidebar"
  /\ IF Years(df) = {}
       THEN \* int(df["YEAR"].min()) on pd.NA
            /\ Raise("TypeError: int(NA) at line 78")
            /\ UNCHANGED <<bound, widgets>>
       ELSE LET min_year == SetMin(Years(df))
                max_year == SetMax(Years(df))
                pl == make_prov_list(df)
                total_prov == Len(pl)
            IN  /\ \E yf \in min_year..max_year, yt \in min_year..max_year :
                      yf <= yt /\ year_from' = yf /\ year_to' = yt
                /\ prov_list' = pl
                /\ \E select_all \in BOOLEAN, picked \in SubLists(pl) :
                      /\ select_all => picked = pl
                      /\ selected_prov' = picked
                /\ include_indonesia' \in BOOLEAN
                /\ top_bottom_n' \in 1..Max2(1, total_prov)
                /\ pc' = "filter"
                /\ UNCHANGED <<error, bound>>
  /\ UNCHANGED <<source, df, loaded, nodata, filtered, sections>>

(* ------------------------------- filter ------------------------------- *)
\* a comparison with pd.NA is NA, and a mask's NA selects nothing
year_between(r, lo, hi) == r.YEAR # NA /\ r.YEAR >= lo /\ r.YEAR <= hi
\* a mutant: any known year passes
year_equals_loose(r, y) == r.YEAR # NA

year_equals(r, y) == r.YEAR # NA /\ r.YEAR = y

year_filter(d, yf, yt) ==
  IF yf = yt THEN SelectSeq(d, LAMBDA r : year_equals(r, yf))
  ELSE SelectSeq(d, LAMBDA r : year_between(r, yf, yt))

make_df_national(dy) == SelectSeq(dy, is_national)

\* line 109: an empty selection stands for every province
effective_prov(sel, pl) == IF sel = <<>> THEN pl ELSE sel

\* a mutant: the mask negated
isin_negated(r, l) == r.REGION \notin Range(l)

isin(r, l) == r.REGION \in Range(l)

make_df_prov(dy, sel) ==
  SelectSeq(SelectSeq(dy, LAMBDA r : isin(r, sel)), not_national)

Filter ==
  /\ pc = "filter"
  /\ df_year' = year_filter(df, year_from, year_to)
  /\ df_national' = make_df_national(df_year')
  /\ selected_prov' = effective_prov(selected_prov, prov_list)
  /\ df_prov' = make_df_prov(df_year', selected_prov')
  /\ IF df_year' = <<>>
       THEN pc' = "stopped" /\ nodata' = nodata \cup {"year range"}
       ELSE pc' = "kpi" /\ UNCHANGED nodata
  /\ UNCHANGED <<source, df, loaded, error, bound, year_from, year_to,
                 prov_list, include_indonesia, top_bottom_n, sections>>

(* -------------------------------- KPI --------------------------------- *)
has_salary(r) == ~IsNaN(r.SALARY)

\* Series.idxmax() / idxmin() followed by .loc: the first row holding the
\* largest (smallest) salary, NaN skipped.  Only called when some salary is known.
row_idxmax(t) ==
  LET k == SelectSeq(t, has_salary)
  IN  k[CHOOSE i \in 1..Len(k) :
          /\ \A j \in 1..Len(k) : ~FGt(k[j].SALARY, k[i].SALARY)
          /\ \A j \in 1..(i - 1) : FLt(k[j].SALARY, k[i].SALARY)]

row_idxmin(t) ==
  LET k == SelectSeq(t, has_salary)
  IN  k[CHOOSE i \in 1..Len(k) :
          /\ \A j \in 1..Len(k) : ~FLt(k[j].SALARY, k[i].SALARY)
          /\ \A j \in 1..(i - 1) : FGt(k[j].SALARY, k[i].SALARY)]

\* a non-empty table whose SALARY column is all NaN: idxmax() raises (or
\* returns NaN, which .loc does not find)
all_nan(t) == t # <<>> /\ SelectSeq(t, has_salary) = <<>>

metric_max(t) == IF t = <<>> THEN <<>> ELSE <<row_idxmax(t)>>
metric_min(t) == IF t = <<>> THEN <<>> ELSE <<row_idxmin(t)>>

KPI ==
  /\ pc = "kpi"
  /\ IF all_nan(df_national) \/ all_nan(df_prov)
       THEN Raise("ValueError: idxmax of an all-NaN column") /\ UNCHANGED kpi
       ELSE /\ kpi' = [k1 |-> metric_max(df_national), k2 |-> metric_min(df_national),
                       k3 |-> metric_max(df_prov), k4 |-> metric_min(df_prov)]
            /\ pc' = "map"
            /\ UNCHANGED error
  /\ UNCHANGED <<source, df, loaded, nodata, bound, widgets, filtered, df_map,
                 prov_filtered, top_df, bot_df, growth_filtered, pct_df,
                 heat_data, df_gap, top_gap, bot_gap, df_ratio, top_ratio,
                 bot_ratio>>

(* -------------------------------- map --------------------------------- *)
\* the order sort_values(by) sorts into: by is <<"YEAR">> or <<"REGION", "YEAR">>
row_lt(a, b, by) ==
  IF Len(by) = 1 THEN a.YEAR < b.YEAR
  ELSE \/ StrOrd(a.REGION) < StrOrd(b.REGION)
       \/ a.REGION = b.REGION /\ a.YEAR < b.YEAR

\* DataFrame.sort_values(by), rows of equal keys staying in their order:
\* row i goes to the place given by the number of rows that precede it
sort_values(t, by) ==
  LET n == Len(t)
      Before(j, i) == row_lt(t[j], t[i], by) \/ (~row_lt(t[i], t[j], by) /\ j < i)
      Place(i) == Cardinality({j \in 1..n : Before(j, i)}) + 1
  IN  [r \in 1..n |-> t[CHOOSE i \in 1..n : Place(i) = r]]

of_region(t, g) == SelectSeq(t, LAMBDA r : r.REGION = g)

\* sort_values("YEAR").groupby("REGION").last(): per region the last known
\* salary in year order, NaN when the region has none
latest_salary(t, g) ==
  LET k == SelectSeq(of_region(sort_values(t, <<"YEAR">>), g), has_salary)
  IN  IF k = <<>> THEN NaN ELSE k[Len(k)].SALARY

fillna0(x) == IF IsNaN(x) THEN Num(0) ELSE x

\* the tooltip lines of a region: (year, salary) in year order
detail_umr(t, g) ==
  LET k == of_region(sort_values(t, <<"REGION", "YEAR">>), g)
  IN  [i \in 1..Len(k) |-> <<k[i].YEAR, k[i].SALARY>>]

make_df_map(d, yf, yt) ==
  LET provs == SelectSeq(d, not_national)
      df_filtered == SelectSeq(provs, LAMBDA r : year_between(r, yf, yt))
      all_prov == sorted_unique({r.REGION : r \in Range(provs)})
      seen == {r.REGION : r \in Range(df_filtered)}
  IN  [i \in 1..Len(all_prov) |->
         [REGION |-> all_prov[i],
          SALARY |-> IF all_prov[i] \in seen
                       THEN fillna0(latest_salary(df_filtered, all_prov[i]))
                       ELSE Num(0),
          DETAIL_UMR |-> IF all_prov[i] \in seen
                           THEN detail_umr(df_filtered, all_prov[i])
                           ELSE <<>>]]

Map ==
  /\ pc = "map"
  /\ df_prov' = SelectSeq(df, not_national)
  /\ LET df_filtered == SelectSeq(df_prov', LAMBDA r : year_between(r, year_from, year_to))
     IN  IF df_filtered = <<>>
           THEN \* groupby().apply() of an empty frame is a DataFrame, whose
                \* reset_index() takes no name=
                Raise("TypeError: reset_index(name=) at line 212") /\ UNCHANGED df_map
         ELSE IF \E i \in 1..Len(df_filtered) : IsNaN(df_filtered[i].SALARY)
           THEN Raise("ValueError: int(NaN) at line 210") /\ UNCHANGED df_map
         ELSE /\ df_map' = make_df_map(df, year_from, year_to)
              /\ pc' = "rank"
              /\ UNCHANGED error
  /\ UNCHANGED <<source, df, loaded, nodata, bound, widgets, df_year,
                 df_national, kpi, prov_filtered, top_df, bot_df,
                 growth_filtered, pct_df, heat_data, df_gap, top_gap, bot_gap,
                 df_ratio, top_ratio, bot_ratio>>

(* ----------------------- nlargest / nsmallest ------------------------- *)
\* the values nlargest ranks ascending: the column negated
rank_key(r, col, largest) == IF largest THEN FNeg(r[col]) ELSE r[col]
rank_lt(a, b, col, largest) == FLt(rank_key(a, col, largest), rank_key(b, col, largest))

\* a mutant: equal values ranked last-come first
argsort_last(t, col, largest) ==
  LET n == Len(t)
      Before(j, i) == \/ rank_lt(t[j], t[i], col, largest)
                      \/ (~rank_lt(t[i], t[j], col, largest) /\ j > i)
      Place(i) == Cardinality({j \in 1..n : Before(j, i)}) + 1
  IN  [r \in 1..n |-> t[CHOOSE i \in 1..n : Place(i) = r]]

\* argsort(kind="mergesort") of the ranked values: stable
argsort(t, col, largest) ==
  LET n == Len(t)
      Before(j, i) == \/ rank_lt(t[j], t[i], col, largest)
                      \/ (~rank_lt(t[i], t[j], col, largest) /\ j < i)
      Place(i) == Cardinality({j \in 1..n : Before(j, i)}) + 1
  IN  [r \in 1..n |-> t[CHOOSE i \in 1..n : Place(i) = r]]

\* kth_smallest(arr, m - 1): a row holding the m-th smallest ranked value
kth_smallest(t, m, col, largest) ==
  CHOOSE i \in 1..Len(t) :
    /\ Cardinality({j \in 1..Len(t) : rank_lt(t[j], t[i], col, largest)}) < m
    /\ Cardinality({j \in 1..Len(t) : ~rank_lt(t[i], t[j], col, largest)}) >= m

\* DataFrame.nlargest(n, col) / nsmallest(n, col), keep="first", as pandas
\* computes it: the rows of known value ranked, then the NaN rows when n
\* leaves room
nselect(t, n, col, largest) ==
  LET dropped == SelectSeq(t, LAMBDA r : ~IsNaN(r[col]))
      nan_index == SelectSeq(t, LAMBDA r : IsNaN(r[col]))
  IN  IF n >= Len(t)
        THEN \* sort_values(ascending=...).head(n), NaN last
             Head_n(argsort(dropped, col, largest) \o nan_index, n)
        ELSE LET m == Min2(n, Len(dropped))
                 ns == IF dropped = <<>> THEN <<>>
                       ELSE LET kth == dropped[kth_smallest(dropped, m, col, largest)]
                            IN  SelectSeq(dropped, LAMBDA r : ~rank_lt(kth, r, col, largest))
                 inds == Head_n(argsort(ns, col, largest), m)
             IN  Head_n(inds \o nan_index, n)

nlargest(t, n, col) == nselect(t, n, col, TRUE)
nsmallest(t, n, col) == nselect(t, n, col, FALSE)

(* --------------------------- salary ranking --------------------------- *)
make_prov_filtered(d, yf, yt, sel) ==
  SelectSeq(d, LAMBDA r : year_between(r, yf, yt) /\ isin(r, sel \o <<NATIONAL>>))

some_nan_salary(t) == \E i \in 1..Len(t) : IsNaN(t[i].SALARY)

Rank ==
  /\ pc = "rank"
  /\ prov_filtered' = make_prov_filtered(df, year_from, year_to, selected_prov)
  /\ IF prov_filtered' = <<>>
       THEN /\ pc' = "stopped"
            /\ nodata' = nodata \cup {"rank"}
            /\ UNCHANGED <<error, top_df, bot_df>>
       ELSE /\ top_df' = nlargest(prov_filtered', top_bottom_n, "SALARY")
            /\ bot_df' = nsmallest(prov_filtered', top_bottom_n, "SALARY")
            /\ IF some_nan_salary(top_df') \/ some_nan_salary(bot_df')
                 THEN Raise("ValueError: int(NaN) at line 284")
                 ELSE pc' = "growth" /\ UNCHANGED error
            /\ UNCHANGED nodata
  /\ UNCHANGED <<source, df, loaded, bound, widgets, filtered, kpi, df_map,
                 growth_filtered, pct_df, heat_data, df_gap, top_gap, bot_gap,
                 df_ratio, top_ratio, bot_ratio>>

(* ------------------------------- growth ------------------------------- *)
\* a mutant: the rows read from year_from on, not from the year before
growth_input_from(d, yf, yt, sel, incl) ==
  LET provs == SelectSeq(d, LAMBDA r : year_between(r, yf, yt) /\ isin(r, sel))
      indo_data == SelectSeq(d, LAMBDA r : is_national(r) /\ year_between(r, yf, yt))
      both == provs \o indo_data
  IN  IF incl THEN [i \in 1..Len(both) |-> [both[i] EXCEPT !.ix = i]]
      ELSE provs

\* lines 366-374: the selected provinces from year_from - 1 on, then, when
\* asked for, the national rows; concat(ignore_index=True) renumbers
growth_input(d, yf, yt, sel, incl) ==
  LET provs == SelectSeq(d, LAMBDA r : year_between(r, yf - 1, yt) /\ isin(r, sel))
      indo_data == SelectSeq(d, LAMBDA r : is_national(r) /\ year_between(r, yf - 1, yt))
      both == provs \o indo_data
  IN  IF incl THEN [i \in 1..Len(both) |-> [both[i] EXCEPT !.ix = i]]
      ELSE provs

\* a mutant: the row above, whatever its region (no groupby)
prev_in_table(t, i) == i - 1

\* groupby("REGION")["SALARY"]: the row before row i in its own region, 0 for
\* the first row of a region
prev_in_group(t, i) ==
  LET before == {j \in 1..(i - 1) : t[j].REGION = t[i].REGION}
  IN  IF before = {} THEN 0 ELSE SetMax(before)

\* pct_change() * 100 and diff() of a salary against the previous one.  (The
\* padding pct_change() applies to NaN salaries changes only rows whose
\* diff() is NaN, which line 384 drops.)
pct_change(cur, prev) == FMulInt(FSub(FDiv(cur, prev), Num(1)), 100)
diff(cur, prev) == FSub(cur, prev)

with_changes(t) ==
  LET g == sort_values(t, <<"REGION", "YEAR">>)
  IN  [i \in 1..Len(g) |->
         LET p == prev_in_group(g, i)
         IN  [REGION |-> g[i].REGION, YEAR |-> g[i].YEAR, SALARY |-> g[i].SALARY,
              ix |-> g[i].ix,
              PCT_CHANGE |-> IF p = 0 THEN NaN
                             ELSE pct_change(g[i].SALARY, g[p].SALARY),
              NOMINAL_CHANGE |-> IF p = 0 THEN NaN
                                 ELSE diff(g[i].SALARY, g[p].SALARY)]]

\* line 384: the rows from year_from on with both changes known
make_pct_df(g, yf) ==
  SelectSeq(g, LAMBDA r : r.YEAR >= yf /\ ~IsNaN(r.PCT_CHANGE) /\ ~IsNaN(r.NOMINAL_CHANGE))

Growth ==
  /\ pc = "growth"
  /\ LET gf == growth_input(df, year_from, year_to, selected_prov, include_indonesia)
     IN  IF gf = <<>>
           THEN /\ growth_filtered' = gf
                /\ nodata' = nodata \cup {"growth"}
                /\ UNCHANGED <<pct_df, bound>>
           ELSE /\ growth_filtered' = with_changes(gf)
                /\ pct_df' = make_pct_df(growth_filtered', year_from)
                /\ bound' = bound \cup {"pct_df"}
                /\ IF pct_df' = <<>>
                     THEN nodata' = nodata \cup {"growth: no previous year"}
                     ELSE UNCHANGED nodata
  /\ pc' = "growth_rank"
  /\ UNCHANGED <<source, df, loaded, error, widgets, filtered, kpi, df_map,
                 prov_filtered, top_df, bot_df, heat_data, df_gap, top_gap,
                 bot_gap, df_ratio, top_ratio, bot_ratio>>

(* --------------------------- growth ranking --------------------------- *)
GrowthRank ==
  /\ pc = "growth_rank"
  /\ IF "pct_df" \notin bound
       THEN /\ Raise("NameError: pct_df at line 441")
            /\ UNCHANGED <<nodata, prov_filtered, top_df, bot_df>>
       ELSE /\ prov_filtered' = pct_df
            /\ IF prov_filtered' = <<>>
                 THEN /\ nodata' = nodata \cup {"growth_rank"}
                      /\ UNCHANGED <<top_df, bot_df>>
                 ELSE /\ top_df' = nlargest(prov_filtered', top_bottom_n, "PCT_CHANGE")
                      /\ bot_df' = nsmallest(prov_filtered', top_bottom_n, "PCT_CHANGE")
                      /\ UNCHANGED nodata
            /\ pc' = "heatmap"
            /\ UNCHANGED error
  /\ UNCHANGED <<source, df, loaded, bound, widgets, filtered, kpi, df_map,
                 growth_filtered, pct_df, heat_data, df_gap, top_gap, bot_gap,
                 df_ratio, top_ratio, bot_ratio>>

(* ------------------------------ heatmap ------------------------------- *)
RECURSIVE SumSalary(_)
SumSalary(t) == IF t = <<>> THEN Num(0) ELSE FAddF(t[1].SALARY, SumSalary(Tail(t)))

\* aggfunc="mean" over the known salaries of one (region, year) cell
cell_mean(t, g, y) ==
  LET k == SelectSeq(t, LAMBDA r : r.REGION = g /\ r.YEAR = y /\ has_salary(r))
  IN  IF k = <<>> THEN NaN ELSE FDiv(SumSalary(k), Num(Len(k)))

\* pivot_table(index="REGION", columns="YEAR", values="SALARY").fillna(0):
\* a cell per region and year that hold a known salary, 0 where the pair
\* has none
pivot_table(t) ==
  LET k == Range(SelectSeq(t, has_salary))
      index == {r.REGION : r \in k}
      cols == {r.YEAR : r \in k}
  IN  {[REGION |-> g, YEAR |-> y, SALARY |-> fillna0(cell_mean(t, g, y))] :
         g \in index, y \in cols}

\* a mutant: the name bound to the selection list itself
list_alias(l) == [same |-> TRUE, items |-> l]

\* list.copy(): a new list object with the same items ("same" tells whether
\* the object is the one selected_prov names)
list_copy(l) == [same |-> FALSE, items |-> l]
\* list.append(x), in place
list_append(o, x) == [o EXCEPT !.items = @ \o <<x>>]

\* lines 540-542
make_heatmap_regions(sel, incl) ==
  LET c == list_copy(sel)
  IN  IF incl THEN list_append(c, NATIONAL) ELSE c

make_df_heat(dy, sel, incl) ==
  LET heatmap_regions == make_heatmap_regions(sel, incl).items
  IN  SelectSeq(dy, LAMBDA r : isin(r, heatmap_regions))

Heatmap ==
  /\ pc = "heatmap"
  /\ LET df_heat == make_df_heat(df_year, selected_prov, include_indonesia)
         heatmap_regions == make_heatmap_regions(selected_prov, include_indonesia)
     IN  /\ IF df_heat = <<>>
              THEN nodata' = nodata \cup {"heatmap"} /\ UNCHANGED heat_data
              ELSE heat_data' = pivot_table(df_heat) /\ UNCHANGED nodata
         \* an append to the object selected_prov names shows in selected_prov
         /\ selected_prov' = IF heatmap_regions.same THEN heatmap_regions.items
                              ELSE selected_prov
  /\ pc' = "gap"
  /\ UNCHANGED <<source, df, loaded, error, bound, year_from, year_to,
                 prov_list, include_indonesia, top_bottom_n, filtered, kpi,
                 df_map, prov_filtered, top_df, bot_df, growth_filtered,
                 pct_df, df_gap, top_gap, bot_gap, df_ratio, top_ratio,
                 bot_ratio>>

(* ----------------------- gap to the national ------------------------- *)
RECURSIVE Flatten(_)
Flatten(ss) == IF ss = <<>> THEN <<>> ELSE Head(ss) \o Flatten(Tail(ss))

\* left.merge(national[["YEAR", "SALARY"]], on="YEAR", how="left",
\* suffixes=("", "_NATIONAL")): every left row once per national row of its
\* year, in the national rows' order; once with NaN when its year has none
merge_left(left, national) ==
  LET joined(r) ==
        LET m == SelectSeq(national, LAMBDA q : q.YEAR = r.YEAR)
        IN  IF m = <<>>
              THEN <<[REGION |-> r.REGION, YEAR |-> r.YEAR, SALARY |-> r.SALARY,
                      SALARY_NATIONAL |-> NaN]>>
              ELSE [i \in 1..Len(m) |->
                      [REGION |-> r.REGION, YEAR |-> r.YEAR, SALARY |-> r.SALARY,
                       SALARY_NATIONAL |-> m[i].SALARY]]
      rows == Flatten([i \in 1..Len(left) |-> joined(left[i])])
  IN  [i \in 1..Len(rows) |->
         [REGION |-> rows[i].REGION, YEAR |-> rows[i].YEAR,
          SALARY |-> rows[i].SALARY, SALARY_NATIONAL |-> rows[i].SALARY_NATIONAL,
          ix |-> i]]

\* lines 593-595
gap_status(x) ==
  IF FGt(x, Num(0)) THEN "Above National Average"
  ELSE IF FEq(x, Num(0)) THEN "Equal to National Average"
  ELSE "Below National Average"

\* lines 746-748
ratio_status(x) ==
  IF FGt(x, Num(100)) THEN "Above National Average"
  ELSE IF FEq(x, Num(100)) THEN "Equal to National Average"
  ELSE "Below National Average"

gap_value(sal, nat) == FSub(sal, nat)
ratio_value(sal, nat) == FMulInt(FDiv(sal, nat), 100)

selected_rows(dy, sel) == SelectSeq(dy, LAMBDA r : isin(r, sel))
national_avg(dy) == SelectSeq(dy, is_national)

make_df_gap(left, national) ==
  LET m == merge_left(left, national)
  IN  [i \in 1..Len(m) |->
         LET g == gap_value(m[i].SALARY, m[i].SALARY_NATIONAL)
         IN  [REGION |-> m[i].REGION, YEAR |-> m[i].YEAR, SALARY |-> m[i].SALARY,
              SALARY_NATIONAL |-> m[i].SALARY_NATIONAL, ix |-> i,
              GAP |-> g, STATUS |-> gap_status(g)]]

make_df_ratio(left, national) ==
  LET m == merge_left(left, national)
  IN  [i \in 1..Len(m) |->
         LET q == ratio_value(m[i].SALARY, m[i].SALARY_NATIONAL)
         IN  [REGION |-> m[i].REGION, YEAR |-> m[i].YEAR, SALARY |-> m[i].SALARY,
              SALARY_NATIONAL |-> m[i].SALARY_NATIONAL, ix |-> i,
              RATIO |-> q, STATUS |-> ratio_status(q)]]

Gap ==
  /\ pc = "gap"
  /\ LET left == selected_rows(df_year, selected_prov)
         df_national_avg == national_avg(df_year)
     IN  IF left = <<>> \/ df_national_avg = <<>>
           THEN /\ df_gap' = [merged |-> FALSE, rows |-> left]
                /\ nodata' = nodata \cup {"gap"}
           ELSE /\ df_gap' = [merged |-> TRUE,
                              rows |-> make_df_gap(left, df_national_avg)]
                /\ UNCHANGED nodata
  /\ pc' = "gap_rank"
  /\ UNCHANGED <<source, df, loaded, error, bound, widgets, filtered, kpi,
                 df_map, prov_filtered, top_df, bot_df, growth_filtered,
                 pct_df, heat_data, top_gap, bot_gap, df_ratio, top_ratio,
                 bot_ratio>>

\* the int() of a table's money columns (lines 674-676, 840-841)
some_nan_money(t) ==
  \E i \in 1..Len(t) : IsNaN(t[i].SALARY) \/ IsNaN(t[i].SALARY_NATIONAL)

GapRank ==
  /\ pc = "gap_rank"
  /\ LET df_gap_filtered ==
           SelectSeq(df_gap.rows, LAMBDA r : year_between(r, year_from, year_to))
     IN  IF df_gap_filtered = <<>>
           THEN /\ nodata' = nodata \cup {"gap_rank"}
                /\ pc' = "ratio"
                /\ UNCHANGED <<error, top_gap, bot_gap>>
         ELSE IF ~df_gap.merged
           THEN /\ Raise("KeyError: GAP at line 662")
                /\ UNCHANGED <<nodata, top_gap, bot_gap>>
         ELSE /\ top_gap' = nlargest(df_gap_filtered, top_bottom_n, "GAP")
              /\ bot_gap' = nsmallest(df_gap_filtered, top_bottom_n, "GAP")
              /\ IF some_nan_money(top_gap') \/ some_nan_money(bot_gap')
                   THEN Raise("ValueError: int(NaN) at line 674")
                   ELSE pc' = "ratio" /\ UNCHANGED error
              /\ UNCHANGED nodata
  /\ UNCHANGED <<source, df, loaded, bound, widgets, filtered, kpi, df_map,
                 prov_filtered, top_df, bot_df, growth_filtered, pct_df,
                 heat_data, df_gap, df_ratio, top_ratio, bot_ratio>>

(* ---------------------- ratio to the national ------------------------- *)
Ratio ==
  /\ pc = "ratio"
  /\ LET left == selected_rows(df_year, selected_prov)
         df_national_avg == national_avg(df_year)
     IN  IF left = <<>> \/ df_national_avg = <<>>
           THEN /\ df_ratio' = [merged |-> FALSE, rows |-> left]
                /\ nodata' = nodata \cup {"ratio"}
           ELSE /\ df_ratio' = [merged |-> TRUE,
                                rows |-> make_df_ratio(left, df_national_avg)]
                /\ UNCHANGED nodata
  /\ pc' = "ratio_rank"
  /\ UNCHANGED <<source, df, loaded, error, bound, widgets, filtered, kpi,
                 df_map, prov_filtered, top_df, bot_df, growth_filtered,
                 pct_df, heat_data, df_gap, top_gap, bot_gap, top_ratio,
                 bot_ratio>>

RatioRank ==
  /\ pc = "ratio_rank"
  /\ LET df_ratio_filtered ==
           SelectSeq(df_ratio.rows, LAMBDA r : year_between(r, year_from, year_to))
     IN  IF df_ratio_filtered = <<>>
           THEN \* the warning, then lines 833-838 read top_ratio
                /\ nodata' = nodata \cup {"ratio_rank"}
                /\ Raise("NameError: top_ratio at line 838")
                /\ UNCHANGED <<bound, top_ratio, bot_ratio>>
         ELSE IF ~df_ratio.merged
           THEN /\ Raise("KeyError: RATIO at line 826")
                /\ UNCHANGED <<nodata, bound, top_ratio, bot_ratio>>
         ELSE /\ top_ratio' = nlargest(df_ratio_filtered, top_bottom_n, "RATIO")
              /\ bot_ratio' = nsmallest(df_ratio_filtered, top_bottom_n, "RATIO")
              /\ bound' = bound \cup {"top_ratio"}
              /\ IF some_nan_money(top_ratio') \/ some_nan_money(bot_ratio')
                   THEN Raise("ValueError: int(NaN) at line 840")
                   ELSE pc' = "done" /\ UNCHANGED error
              /\ UNCHANGED nodata
  /\ UNCHANGED <<source, df, loaded, widgets, filtered, kpi, df_map,
                 prov_filtered, top_df, bot_df, growth_filtered, pct_df,
                 heat_data, df_gap, top_gap, bot_gap, df_ratio>>

(* ------------------------------- rerun -------------------------------- *)
\* a widget interaction re-executes the script in a fresh namespace
Rerun ==
  /\ pc \in {"done", "stopped", "error"}
  /\ loaded
  /\ pc' = "load"
  /\ error' = "" /\ nodata' = {} /\ bound' = {}
  /\ year_from' = 0 /\ year_to' = 0 /\ prov_list' = <<>> /\ selected_prov' = <<>>
  /\ include_indonesia' = TRUE /\ top_bottom_n' = 1
  /\ df_year' = <<>> /\ df_national' = <<>> /\ df_prov' = <<>>
  /\ kpi' = <<>> /\ df_map' = <<>>
  /\ prov_filtered' = <<>> /\ top_df' = <<>> /\ bot_df' = <<>>
  /\ growth_filtered' = <<>> /\ pct_df' = <<>>
  /\ heat_data' = {}
  /\ df_gap' = NoTable /\ top_gap' = <<>> /\ bot_gap' = <<>>
  /\ df_ratio' = NoTable /\ top_ratio' = <<>> /\ bot_ratio' = <<>>
  /\ UNCHANGED <<source, df, loaded>>

(* --------------------------- the environment -------------------------- *)
\* the contents the file at DATA_PATH is replaced with while the app runs
Edits == [header : {GoodHeader}, rows : {GapExample}]

\* the file at DATA_PATH is rewritten between two runs of the script
FileChanged ==
  /\ pc \in {"done", "stopped", "error"}
  /\ loaded
  /\ source' \in Edits \ {source}
  /\ UNCHANGED <<df, loaded, pc, error, nodata, bound, widgets, filtered, sections>>

\* the server process is restarted: the cache of st.cache_data is gone
Restart ==
  /\ pc \in {"done", "stopped", "error"}
  /\ loaded
  /\ loaded' = FALSE /\ df' = <<>>
  /\ pc' = "load"
  /\ error' = "" /\ nodata' = {} /\ bound' = {}
  /\ year_from' = 0 /\ year_to' = 0 /\ prov_list' = <<>> /\ selected_prov' = <<>>
  /\ include_indonesia' = TRUE /\ top_bottom_n' = 1
  /\ df_year' = <<>> /\ df_national' = <<>> /\ df_prov' = <<>>
  /\ kpi' = <<>> /\ df_map' = <<>>
  /\ prov_filtered' = <<>> /\ top_df' = <<>> /\ bot_df' = <<>>
  /\ growth_filtered' = <<>> /\ pct_df' = <<>>
  /\ heat_data' = {}
  /\ df_gap' = NoTable /\ top_gap' = <<>> /\ bot_gap' = <<>>
  /\ df_ratio' = NoTable /\ top_ratio' = <<>> /\ bot_ratio' = <<>>
  /\ UNCHANGED source

(* ============================== claims ================================ *)
Rows(t) == Range(t)
\* the table a read of a sheet's rows gives
Parsed(rows) ==
  [i \in 1..Len(rows) |->
     [REGION |-> str_strip(rows[i].REGION),
      YEAR |-> IF rows[i].YEAR = BadCell THEN NA ELSE rows[i].YEAR,
      SALARY |-> IF rows[i].SALARY = BadCell THEN NaN ELSE <<rows[i].SALARY, 1>>,
      ix |-> i]]
Terminal == pc \in {"done", "stopped", "error"}

\* C1: a selected-region row of a year that has no national row in the year
\* range is left out of the gap and of the ratio output, and the pass goes on
\* (the range holding no national row at all included).
C1_UnmatchedYearExcluded ==
  LET nat_years == {q.YEAR : q \in Rows(df_national)}
  IN  /\ df_gap.merged => \A r \in Rows(df_gap.rows) : r.YEAR \in nat_years
      /\ df_ratio.merged => \A r \in Rows(df_ratio.rows) : r.YEAR \in nat_years
      /\ error \notin {"KeyError: GAP at line 662", "KeyError: RATIO at line 826"}

\* C2: a section whose filtered input is empty shows its no-data message and
\* the later sections still run, none reading a table or a column the empty
\* section never made.
C2_EmptyStageIsNoData ==
  /\ pc = "stopped" => "rank" \notin nodata
  /\ error \notin {"NameError: pct_df at line 441", "KeyError: GAP at line 662",
                   "KeyError: RATIO at line 826", "NameError: top_ratio at line 838"}

\* C3: no value of a division by zero is emitted: no PercentChange of a row
\* whose prior salary is 0, no Ratio of a row whose national salary is 0.
C3_NoZeroDivisionValue ==
  /\ \A r \in Rows(pct_df) : IsFinite(r.PCT_CHANGE)
  /\ df_ratio.merged =>
       \A r \in Rows(df_ratio.rows) : r.SALARY_NATIONAL # Num(0)

\* C5: a record with an unparseable year or salary cell never aborts a pass.
C5_BadCellNeverAborts ==
  /\ error \notin {"ValueError: idxmax of an all-NaN column",
                   "ValueError: int(NaN) at line 210",
                   "ValueError: int(NaN) at line 284"}
  /\ (error = "TypeError: int(NA) at line 78" => df = <<>>)

\* the row counts of the three filtered tables under the selection (yf, yt,
\* picked), picked being the multiselect's value
Counts(yf, yt, picked) ==
  LET dy == year_filter(df, yf, yt)
  IN  <<Len(dy), Len(make_df_national(dy)),
        Len(make_df_prov(dy, effective_prov(picked, prov_list)))>>

NoMoreThan(c) ==
  c[1] <= Len(df_year) /\ c[2] <= Len(df_national) /\ c[3] <= Len(df_prov)

\* C4 as stated: a second selection whose year range lies inside the first's
\* and whose region set is any subset of the first's, the empty set included,
\* gives no more rows in any of the three filtered tables.
C4_MonotoneAnySubset ==
  pc = "kpi" =>
    \A yf \in year_from..year_to, yt \in year_from..year_to,
       picked \in SubLists(selected_prov) :
      yf <= yt => NoMoreThan(Counts(yf, yt, picked))

\* C4 amended: the same for a second region set that is a non-empty subset
\* of the first's, or empty when the first selection is every province (the
\* empty selection stands for every province, so it widens any other).
C4_MonotoneNonEmptySubset ==
  pc = "kpi" =>
    \A yf \in year_from..year_to, yt \in year_from..year_to,
       picked \in SubLists(selected_prov) :
      (yf <= yt /\ (picked # <<>> \/ selected_prov = prov_list))
        => NoMoreThan(Counts(yf, yt, picked))

\* a pass whose selection can be narrowed in years and in regions, with rows
\* the narrowing removes
C4_Witness ==
  /\ pc = "kpi"
  /\ year_from < year_to
  /\ Len(selected_prov) >= 2
  /\ \E picked \in SubLists(selected_prov) :
       /\ picked # <<>>
       /\ Counts(year_to, year_to, picked)[3] < Len(df_prov)
       /\ Counts(year_to, year_to, picked)[1] < Len(df_year)

\* ---- C6
InYears(r) == r.YEAR # NA /\ year_from <= r.YEAR /\ r.YEAR <= year_to
IgnoringCase(a, b) == str_upper(a) = str_upper(b)
\* the regions a multiselect value stands for
Chosen(picked) ==
  IF picked = <<>>
    THEN {r.REGION : r \in {q \in Rows(df) : ~IgnoringCase(q.REGION, NATIONAL)}}
    ELSE Range(picked)
NationalRecords ==
  {r \in Rows(df) : InYears(r) /\ IgnoringCase(r.REGION, NATIONAL)}
RegionRecords(picked) ==
  {r \in Rows(df) : /\ InYears(r)
                    /\ r.REGION \in Chosen(picked)
                    /\ ~IgnoringCase(r.REGION, NATIONAL)}
\* the table holding exactly the records S, in the sheet's order
TableOf(S) == SelectSeq(df, LAMBDA r : r \in S)

\* C6: the filter step leaves in nationalRows exactly the records of the year
\* range whose region is the national identifier ignoring case, and in
\* regionRows exactly the records of the year range whose region is selected
\* (every province when nothing is selected) and not national.
C6_FilterApplication ==
  [][pc = "filter" =>
       /\ df_national' = TableOf(NationalRecords)
       /\ df_prov' = TableOf(RegionRecords(selected_prov))
       /\ \A r \in Rows(df_prov') : ~IgnoringCase(r.REGION, NATIONAL)]_vars

\* a filtered pass with a mixed-case national record and province records
C6_Witness ==
  /\ pc = "kpi"
  /\ \E r \in Rows(df_national) : r.REGION = "Indonesia"
  /\ df_prov # <<>>

\* ---- C7
\* p comes before r in the history of r's region: earlier year, or same year
\* and earlier in the table
Precedes(p, r) ==
  /\ p.REGION = r.REGION
  /\ p.YEAR < r.YEAR \/ (p.YEAR = r.YEAR /\ p.ix < r.ix)
\* the record just before r in its region's history (none or one)
Prior(r, S) ==
  {p \in S : /\ Precedes(p, r)
             /\ ~\E q \in S : Precedes(p, q) /\ Precedes(q, r)}

ChangesOf(t, g) ==
  LET k == SelectSeq(t, LAMBDA r : r.REGION = g)
  IN  [i \in 1..Len(k) |-> <<k[i].YEAR, k[i].NOMINAL_CHANGE, k[i].PCT_CHANGE>>]

\* C7: in the growth table every row after the first of its region has
\* NominalChange = salary - prior salary and PercentChange = that difference
\* over the prior salary times 100, the prior salary being the one of the row
\* just before it in the same region; the first row of a region has neither;
\* 100, 110, 121 give 10, 11 and 10 %, 10 %.
C7_ChangeMetrics ==
  /\ \A r \in Rows(growth_filtered) :
       LET pr == Prior(r, Rows(growth_filtered))
       IN  IF pr = {}
             THEN IsNaN(r.NOMINAL_CHANGE) /\ IsNaN(r.PCT_CHANGE)
             ELSE LET p == CHOOSE q \in pr : TRUE
                      d == r.SALARY[1] - p.SALARY[1]
                  IN  (IsFinite(r.SALARY) /\ IsFinite(p.SALARY)) =>
                        /\ r.NOMINAL_CHANGE = <<d, 1>>
                        /\ p.SALARY[1] # 0 =>
                             /\ IsFinite(r.PCT_CHANGE)
                             /\ r.PCT_CHANGE[1] * p.SALARY[1]
                                  = d * 100 * r.PCT_CHANGE[2]
  /\ \A r \in Rows(growth_filtered) :
       \E q \in Rows(df) :
         q.REGION = r.REGION /\ q.YEAR = r.YEAR /\ q.SALARY = r.SALARY
  /\ ( /\ df = Parsed(ChangeExample) /\ "pct_df" \in bound
       /\ year_from <= 2 /\ year_to = 3 /\ "A" \in Range(selected_prov) )
     => ChangesOf(pct_df, "A") = << <<2, Num(10), Num(10)>>, <<3, Num(11), Num(10)>> >>

\* the worked example, with a second region between the rows of the first
C7_Witness ==
  /\ pc = "growth_rank"
  /\ df = Parsed(ChangeExample)
  /\ selected_prov = <<"A", "B">>
  /\ year_from = 1 /\ year_to = 3
  /\ ChangesOf(pct_df, "A") = << <<2, Num(10), Num(10)>>, <<3, Num(11), Num(10)>> >>
  /\ ChangesOf(pct_df, "B") = << <<2, Num(0), Num(0)>>, <<3, Num(-100), Num(-50)>> >>

\* ---- C8
\* the regions whose rows the growth section reads
GrowthRegions ==
  {r.REGION : r \in {q \in Rows(df) :
     \/ q.REGION \in Range(selected_prov)
     \/ include_indonesia /\ IgnoringCase(q.REGION, NATIONAL)}}
RecordsOf(g, y) == {r \in Rows(df) : r.REGION = g /\ r.YEAR = y}
HasChangeAt(g, y) ==
  \E r \in Rows(pct_df) :
    r.REGION = g /\ r.YEAR = y /\ IsFinite(r.PCT_CHANGE) /\ IsFinite(r.NOMINAL_CHANGE)
GrowthRan == "pct_df" \in bound \/ "growth" \in nodata

GrowthOutputInScope ==
  /\ \A r \in Rows(pct_df) :
       /\ year_from <= r.YEAR /\ r.YEAR <= year_to
       /\ Prior(r, Rows(growth_filtered)) # {}
  /\ (pc = "heatmap" /\ pct_df # <<>>) =>
       Rows(top_df) \cup Rows(bot_df) \subseteq Rows(pct_df)

\* C8 as stated: the growth section reads year_from - 1 .. year_to, so a
\* region with records for year_from - 1 and year_from has a defined change
\* for year_from; the growth output and its ranking hold only rows of
\* year_from .. year_to and never the first loaded row of a region.
C8_GrowthScope ==
  GrowthRan =>
    /\ \A g \in GrowthRegions :
         (RecordsOf(g, year_from - 1) # {} /\ RecordsOf(g, year_from) # {})
           => HasChangeAt(g, year_from)
    /\ GrowthOutputInScope

\* C8 amended: the same, the defined change being promised when the region's
\* records of the two years have parseable salaries, non-zero for
\* year_from - 1.
C8_GrowthScopeKnownNonZero ==
  GrowthRan =>
    /\ \A g \in GrowthRegions :
         ( /\ RecordsOf(g, year_from - 1) # {} /\ RecordsOf(g, year_from) # {}
           /\ \A r \in RecordsOf(g, year_from - 1) \cup RecordsOf(g, year_from) :
                IsFinite(r.SALARY)
           /\ \A r \in RecordsOf(g, year_from - 1) : r.SALARY # Num(0) )
           => HasChangeAt(g, year_from)
    /\ GrowthOutputInScope

\* a pass whose first year in range has its change from the year before, the
\* row of that year read and left out of the output
C8_Witness ==
  /\ pc = "heatmap"
  /\ \E g \in GrowthRegions :
       /\ \E r \in RecordsOf(g, year_from - 1) : r.SALARY # Num(0) /\ IsFinite(r.SALARY)
       /\ HasChangeAt(g, year_from)
  /\ \E r \in Rows(growth_filtered) : r.YEAR = year_from - 1
  /\ top_df # <<>>

\* ---- C9
Above == "Above National Average"
Equal == "Equal to National Average"
Below == "Below National Average"
\* a status that says how x stands to the threshold
StatusTells(st, x, threshold) ==
  /\ st = Above <=> FGt(x, threshold)
  /\ st = Equal <=> FEq(x, threshold)
  /\ st = Below <=> FLt(x, threshold)
NationalOf(y) == {q \in Rows(df_year) : IgnoringCase(q.REGION, NATIONAL) /\ q.YEAR = y}
SelectedRows == {q \in Rows(df_year) : q.REGION \in Range(selected_prov)}
\* x = s / n * 100 for known s and non-zero known n
IsRatioOf(x, s, n) ==
  (IsFinite(s) /\ IsFinite(n) /\ n # Num(0)) =>
    IsFinite(x) /\ x[1] * n[1] = s[1] * 100 * x[2]
IsGapOf(x, s, n) ==
  (IsFinite(s) /\ IsFinite(n)) => x = <<s[1] - n[1], 1>>

\* C9: every selected-region row with a national row of the same year has
\* Gap = region salary - national salary of that year with the status told
\* by Gap > 0, = 0, < 0, and Ratio = region salary / national salary * 100
\* with the status told by Ratio > 100, = 100, < 100; the two statuses of a
\* row agree when the national salary is positive; 3000000 against 2500000
\* gives Gap 500000, Ratio 120, both above.
C9_GapRatio ==
  /\ df_gap.merged =>
       /\ \A r \in SelectedRows : \A q \in NationalOf(r.YEAR) :
            \E g \in Rows(df_gap.rows) :
              /\ g.REGION = r.REGION /\ g.YEAR = r.YEAR /\ g.SALARY = r.SALARY
              /\ g.SALARY_NATIONAL = q.SALARY
       /\ \A g \in Rows(df_gap.rows) :
            NationalOf(g.YEAR) # {} =>
              /\ \E q \in NationalOf(g.YEAR) : g.SALARY_NATIONAL = q.SALARY
              /\ IsGapOf(g.GAP, g.SALARY, g.SALARY_NATIONAL)
              /\ StatusTells(g.STATUS, g.GAP, Num(0))
  /\ df_ratio.merged =>
       /\ \A r \in SelectedRows : \A q \in NationalOf(r.YEAR) :
            \E g \in Rows(df_ratio.rows) :
              /\ g.REGION = r.REGION /\ g.YEAR = r.YEAR /\ g.SALARY = r.SALARY
              /\ g.SALARY_NATIONAL = q.SALARY
       /\ \A g \in Rows(df_ratio.rows) :
            NationalOf(g.YEAR) # {} =>
              /\ \E q \in NationalOf(g.YEAR) : g.SALARY_NATIONAL = q.SALARY
              /\ IsRatioOf(g.RATIO, g.SALARY, g.SALARY_NATIONAL)
              /\ StatusTells(g.STATUS, g.RATIO, Num(100))
  /\ (df_gap.merged /\ df_ratio.merged) =>
       /\ Len(df_gap.rows) = Len(df_ratio.rows)
       /\ \A i \in 1..Len(df_gap.rows) :
            FGt(df_gap.rows[i].SALARY_NATIONAL, Num(0)) =>
              df_gap.rows[i].STATUS = df_ratio.rows[i].STATUS
  /\ (df = Parsed(GapExample) /\ df_gap.merged /\ df_ratio.merged) =>
       /\ Len(df_gap.rows) = 1 /\ Len(df_ratio.rows) = 1
       /\ df_gap.rows[1].GAP = Num(500000) /\ df_gap.rows[1].STATUS = Above
       /\ df_ratio.rows[1].RATIO = Num(120) /\ df_ratio.rows[1].STATUS = Above

\* ---- C10
Pos(t, r) == CHOOSE i \in 1..Len(t) : t[i] = r
\* a comes before b when t is sorted by col (descending or ascending), rows
\* of equal value in table order, rows of unknown value last
Ahead(a, b, t, col, desc) ==
  IF IsNaN(a[col]) \/ IsNaN(b[col])
    THEN \/ ~IsNaN(a[col]) /\ IsNaN(b[col])
         \/ IsNaN(a[col]) /\ IsNaN(b[col]) /\ Pos(t, a) < Pos(t, b)
    ELSE \/ desc /\ FGt(a[col], b[col])
         \/ ~desc /\ FLt(a[col], b[col])
         \/ FEq(a[col], b[col]) /\ Pos(t, a) < Pos(t, b)
\* res is the first min(n, rows) rows of t so sorted
IsFirstN(res, t, n, col, desc) ==
  /\ Len(res) = Min2(n, Len(t))
  /\ \A i \in 1..Len(res) : res[i] \in Rows(t)
  /\ \A i, j \in 1..Len(res) : i < j => Ahead(res[i], res[j], t, col, desc)
  /\ \A r \in Rows(t) \ Rows(res) :
       \A i \in 1..Len(res) : Ahead(res[i], r, t, col, desc)
IsRanking(top, bot, t, col) ==
  /\ IsFirstN(top, t, top_bottom_n, col, TRUE)
  /\ IsFirstN(bot, t, top_bottom_n, col, FALSE)
RegionsOf(t) == [i \in 1..Len(t) |-> t[i].REGION]

\* C10: the top-N of a non-empty table is its first min(N, rows) rows sorted
\* by the metric descending and the bottom-N the first min(N, rows) sorted
\* ascending, rows of equal metric in their original order, in the salary,
\* growth, gap and ratio rankings; A:5, B:3, C:8, D:1 give top-2 = [C, A] and
\* bottom-2 = [D, B].
C10_Ranking ==
  /\ pc \in {"growth", "growth_rank"} =>
       IsRanking(top_df, bot_df, prov_filtered, "SALARY")
  /\ (pc = "heatmap" /\ pct_df # <<>>) =>
       IsRanking(top_df, bot_df, pct_df, "PCT_CHANGE")
  /\ (pc = "ratio" /\ "gap_rank" \notin nodata) =>
       IsRanking(top_gap, bot_gap, df_gap.rows, "GAP")
  /\ pc = "done" =>
       IsRanking(top_ratio, bot_ratio, df_ratio.rows, "RATIO")
  /\ ( /\ df = Parsed(RankExample) /\ pc = "growth" /\ top_bottom_n = 2
       /\ Len(selected_prov) = 4 )
     => /\ RegionsOf(top_df) = <<"C", "A">>
        /\ RegionsOf(bot_df) = <<"D", "B">>

\* the worked example ranked
C10_Witness ==
  /\ pc = "growth"
  /\ df = Parsed(RankExample)
  /\ top_bottom_n = 2
  /\ RegionsOf(top_df) = <<"C", "A">>
  /\ RegionsOf(bot_df) = <<"D", "B">>

\* ---- C11
\* no section of the pass has produced anything
NothingDerived ==
  /\ kpi = <<>> /\ df_map = <<>>
  /\ prov_filtered = <<>> /\ top_df = <<>> /\ bot_df = <<>>
  /\ growth_filtered = <<>> /\ pct_df = <<>>
  /\ heat_data = {}
  /\ df_gap = NoTable /\ top_gap = <<>> /\ bot_gap = <<>>
  /\ df_ratio = NoTable /\ top_ratio = <<>> /\ bot_ratio = <<>>
\* the pass stopped on the year-range warning
StoppedOnEmptyRange == pc = "stopped" /\ "year range" \in nodata

\* C11: a year range within the slider bounds that matches no record makes
\* the filter step present the no-data state and stop: no error, no section
\* output, and the only step after it is the next run of the script.
C11_EmptyRangeStops ==
  [][ /\ (pc = "filter" /\ {r \in Rows(df) : InYears(r)} = {}) =>
           /\ StoppedOnEmptyRange'
           /\ error' = ""
           /\ NothingDerived'
           /\ df_year' = <<>> /\ df_national' = <<>> /\ df_prov' = <<>>
      /\ StoppedOnEmptyRange => (pc' \in {"load", "stopped"} /\ NothingDerived') ]_vars

\* a loaded sheet with a year of no records between its first and last year
C11_Witness ==
  /\ StoppedOnEmptyRange
  /\ df # <<>>
  /\ SetMin(Years(df)) < year_from /\ year_to < SetMax(Years(df))
  /\ error = ""

\* ---- C12
\* the expected columns no header name stands for, once trimmed and upper-cased
Lacking ==
  {e \in {"REGION", "SALARY", "YEAR"} :
     \A i \in 1..Len(source.header) : str_upper(str_strip(source.header[i])) # e}
\* the error shown names the column e
Names(msg, e) ==
  \/ e = "REGION" /\ msg = "Failed to load data: Column 'REGION' not found"
  \/ e = "SALARY" /\ msg = "Failed to load data: Column 'SALARY' not found"
  \/ e = "YEAR" /\ msg = "Failed to load data: Column 'YEAR' not found"
SchemaErrors ==
  {"Failed to load data: Column 'REGION' not found",
   "Failed to load data: Column 'SALARY' not found",
   "Failed to load data: Column 'YEAR' not found"}

\* C12: a load of a sheet whose header, trimmed and compared ignoring case,
\* lacks one of region, salary, year fails with an error naming a missing
\* column and the pass stops with no filter or metric output; a sheet whose
\* header has all three loads with no schema error.
C12_SchemaCheck ==
  [][ /\ (pc = "load" /\ ~loaded) =>
           IF Lacking # {}
             THEN /\ pc' = "stopped"
                  /\ \E e \in Lacking : Names(error', e)
                  /\ ~loaded' /\ df' = <<>>
                  /\ NothingDerived'
                  /\ df_year' = <<>> /\ df_national' = <<>> /\ df_prov' = <<>>
             ELSE /\ loaded' /\ pc' = "sidebar" /\ error' = ""
                  /\ Len(df') = Len(source.rows)
      /\ error \in SchemaErrors => (pc' \in {"load", "stopped"} /\ NothingDerived') ]_vars

\* a sheet without a salary column, and the error naming it
C12_Witness ==
  /\ pc = "stopped"
  /\ source.header = <<"REGION", "YEAR">>
  /\ error = "Failed to load data: Column 'SALARY' not found"
  /\ ~loaded

\* ---- C13
\* the table a read of the file as it is now would give
ReadNow == Parsed(source.rows)

\* C13: after the first successful load every later load in the same process
\* returns the table of the first one and does not read the file, changed or
\* not; the file is read again only by the load that follows a restart.
C13_LoadMemoized ==
  [][ /\ (loaded /\ loaded') => df' = df
      /\ (loaded /\ pc = "load") => (pc' = "sidebar" /\ loaded' /\ error' = "")
      /\ (loaded /\ ~loaded') => (pc \in {"done", "stopped", "error"} /\ pc' = "load")
      /\ (~loaded /\ loaded') => (pc = "load" /\ df' = ReadNow') ]_vars

\* a pass that went on with the table of the first load after the file was
\* replaced by a different sheet
C13_Witness ==
  /\ pc = "filter"
  /\ loaded
  /\ Lacking = {}
  /\ df # ReadNow
  /\ df # <<>>

\* ---- C14
Stages ==
  {"filter", "kpi", "map", "rank", "growth", "growth_rank", "heatmap", "gap",
   "gap_rank", "ratio", "ratio_rank"}

\* C14: once loaded, no stage of a pass changes the source table (rows,
\* values, columns) or the province list; the selection list is left as it
\* is by every stage after the filter, the heatmap stage that appends the
\* national identifier to its own list included.
C14_SourceImmutable ==
  [][ (loaded /\ pc \in Stages) =>
        /\ df' = df
        /\ prov_list' = prov_list
        /\ pc # "filter" => selected_prov' = selected_prov ]_vars

\* a heatmap drawn with the national row, the selection still without it
C14_Witness ==
  /\ pc = "gap"
  /\ include_indonesia
  /\ \E c \in heat_data : c.REGION = NATIONAL
  /\ \E c \in heat_data : c.REGION # NATIONAL
  /\ NATIONAL \notin Range(selected_prov)
  /\ df # <<>>

\* ---- C15
\* C15: a record the filter took as national (its region any case variant of
\* the national identifier) is national in every stage: it is in the salary
\* ranking's input, in the growth input and in the heatmap when the national
\* average is shown, and it is the national side of the gap and the ratio.
C15_NationalAnyCase ==
  /\ pc \in {"growth", "growth_rank"} =>
       \A r \in Rows(df_national) : r \in Rows(prov_filtered)
  /\ ("pct_df" \in bound /\ include_indonesia) =>
       \A r \in Rows(df_national) :
         \E g \in Rows(growth_filtered) :
           g.REGION = r.REGION /\ g.YEAR = r.YEAR /\ g.SALARY = r.SALARY
  /\ (pc = "gap" /\ include_indonesia) =>
       \A r \in Rows(df_national) :
         \E c \in heat_data : c.REGION = r.REGION /\ c.YEAR = r.YEAR
  /\ df_gap.merged =>
       \A r \in Rows(df_national) : \A q \in SelectedRows :
         q.YEAR = r.YEAR =>
           \E g \in Rows(df_gap.rows) :
             g.REGION = q.REGION /\ g.YEAR = q.YEAR /\ g.SALARY_NATIONAL = r.SALARY
  /\ df_ratio.merged =>
       \A r \in Rows(df_national) : \A q \in SelectedRows :
         q.YEAR = r.YEAR =>
           \E g \in Rows(df_ratio.rows) :
             g.REGION = q.REGION /\ g.YEAR = q.YEAR /\ g.SALARY_NATIONAL = r.SALARY

\* ---- C16
\* C16: every row of the growth output carries the change against the salary
\* of the same region's record of the year before; a region without a record
\* for year t - 1 has no row for year t.
C16_YearOverYear ==
  \A r \in Rows(pct_df) :
    \E p \in Rows(growth_filtered) :
      /\ p.REGION = r.REGION
      /\ p.YEAR = r.YEAR - 1
      /\ (IsFinite(r.SALARY) /\ IsFinite(p.SALARY)) =>
           r.NOMINAL_CHANGE = <<r.SALARY[1] - p.SALARY[1], 1>>

\* ---- C17
IsNationalRow(r) == IgnoringCase(r.REGION, NATIONAL)

\* C17: with the national average not shown no national row is in the growth
\* output, the growth ranking, the heatmap or the top/bottom salary ranking;
\* with it shown the national rows of the year range are in the growth, the
\* heatmap and the salary-ranking inputs.
C17_IncludeNational ==
  /\ ~include_indonesia =>
       /\ \A r \in Rows(pct_df) : ~IsNationalRow(r)
       /\ \A r \in Rows(top_df) \cup Rows(bot_df) : ~IsNationalRow(r)
       /\ \A c \in heat_data : ~IsNationalRow(c)
  /\ include_indonesia =>
       /\ pc \in {"growth", "growth_rank"} =>
            \A r \in Rows(df_national) : r \in Rows(prov_filtered)
       /\ "pct_df" \in bound =>
            \A r \in Rows(df_national) :
              \E g \in Rows(growth_filtered) :
                g.REGION = r.REGION /\ g.YEAR = r.YEAR /\ g.SALARY = r.SALARY
       /\ pc = "gap" =>
            \A r \in Rows(df_national) :
              \E c \in heat_data : c.REGION = r.REGION /\ c.YEAR = r.YEAR

Next == Load \/ Sidebar \/ Filter \/ KPI \/ Map \/ Rank \/ Growth \/ GrowthRank
        \/ Heatmap \/ Gap \/ GapRank \/ Ratio \/ RatioRank \/ Rerun
          \/ FileChanged \/ Restart

Spec == Init /\ [][Next]_vars
=============================================================================
